---------------------------- MODULE Spec2Model ----------------------------
(***************************************************************************)
(* SetpointPositionPlugin (mavros/src/plugins/setpoint_position.cpp).      *)
(*                                                                         *)
(* The plugin forwards a desired pose to the flight controller.  A pose    *)
(* comes from exactly one of two sources (the TF2 listener thread or the   *)
(* "local" topic subscription), send_position_target resolves it for the   *)
(* active MAV_FRAME and hands a SET_POSITION_TARGET_LOCAL_NED command to   *)
(* the link; the "mav_frame" service replaces the active MAV_FRAME.        *)
(*                                                                         *)
(* Numbers.  Vectors are integer triples and orientations are rotation     *)
(* matrices with integer entries (the axis-aligned rotations), so that     *)
(* every frame transform is computed exactly.  Yaw is in degrees.  A       *)
(* 32-bit unsigned value is kept as two 16-bit halves [hi, lo], because    *)
(* the millisecond quotients of wall-clock stamps do not fit the model     *)
(* checker's integers; a value that has not been narrowed yet has an       *)
(* unbounded hi.                                                           *)
(***************************************************************************)
EXTENDS Integers, Sequences, FiniteSets, TLC

(***************************************************************************)
(* Bounds of the model.                                                    *)
(***************************************************************************)
\* Frame-selection requests range over the frames the plugin distinguishes
\* and over the ids MAV_FRAME_COUNT .. MaxFrameId, unknown to the enumeration.
MaxFrameId == 12
\* Number of pose events (transform updates and "local" messages) per run.
MaxEvents == 3

(***************************************************************************)
(* mavlink::common::MAV_FRAME, as the plugin uses it.                      *)
(***************************************************************************)
LOCAL_NED == 1
BODY_NED == 8
BODY_OFFSET_NED == 9
\* Number of enumerators: ids 0 .. MAV_FRAME_COUNT - 1 are known.
MAV_FRAME_COUNT == 12

\* utils::mav_frame_strings: the name of enumerator i is at index i + 1.
mav_frame_strings ==
    << "GLOBAL", "LOCAL_NED", "MISSION", "GLOBAL_RELATIVE_ALT", "LOCAL_ENU",
       "GLOBAL_INT", "GLOBAL_RELATIVE_ALT_INT", "LOCAL_OFFSET_NED", "BODY_NED",
       "BODY_OFFSET_NED", "GLOBAL_TERRAIN_ALT", "GLOBAL_TERRAIN_ALT_INT" >>

KnownFrames == 0 .. (MAV_FRAME_COUNT - 1)

\* utils::enum_value: the protocol id of an enumerator (uint8_t).
enum_value(f) == f % 256

\* utils::to_string(MAV_FRAME): the enumerator's name; a value outside the
\* enumeration has no name and is written as its number.
to_string(f) ==
    IF f \in KnownFrames THEN mav_frame_strings[f + 1] ELSE ToString(f)

\* utils::mav_frame_from_str: the enumerator of that name; LOCAL_NED for a
\* string that names none.
mav_frame_from_str(s) ==
    IF \E i \in KnownFrames : mav_frame_strings[i + 1] = s
    THEN CHOOSE i \in KnownFrames : mav_frame_strings[i + 1] = s
    ELSE LOCAL_NED

(***************************************************************************)
(* Frame transforms (mavros::ftf).                                         *)
(***************************************************************************)
\* 3x3 matrices are triples of rows.
Dot(r, v) == r[1] * v[1] + r[2] * v[2] + r[3] * v[3]

Col(m, j) == << m[1][j], m[2][j], m[3][j] >>

MatVec(m, v) == << Dot(m[1], v), Dot(m[2], v), Dot(m[3], v) >>

MatMul(a, b) ==
    << << Dot(a[1], Col(b, 1)), Dot(a[1], Col(b, 2)), Dot(a[1], Col(b, 3)) >>,
       << Dot(a[2], Col(b, 1)), Dot(a[2], Col(b, 2)), Dot(a[2], Col(b, 3)) >>,
       << Dot(a[3], Col(b, 1)), Dot(a[3], Col(b, 2)), Dot(a[3], Col(b, 3)) >> >>

\* NED_ENU_Q: roll pi, yaw pi/2.  (east, north, up) -> (north, east, -up).
NED_ENU_R == << <<0, 1, 0>>, <<1, 0, 0>>, <<0, 0, -1>> >>

\* AIRCRAFT_BASELINK_Q: roll pi.  (forward, left, up) -> (forward, right, down).
AIRCRAFT_BASELINK_R == << <<1, 0, 0>>, <<0, -1, 0>>, <<0, 0, -1>> >>

\* ftf::transform_frame_enu_ned(vec)
transform_frame_enu_ned(v) == MatVec(NED_ENU_R, v)

\* ftf::transform_frame_baselink_aircraft(vec)
transform_frame_baselink_aircraft(v) == MatVec(AIRCRAFT_BASELINK_R, v)

\* ftf::transform_orientation_enu_ned(q) = NED_ENU_Q * q
transform_orientation_enu_ned(q) == MatMul(NED_ENU_R, q)

\* ftf::transform_orientation_baselink_aircraft(q) = q * AIRCRAFT_BASELINK_Q
transform_orientation_baselink_aircraft(q) == MatMul(q, AIRCRAFT_BASELINK_R)

\* atan2(y, x) in degrees on the axis directions; atan2(0, 0) = 0.
Atan2Deg(y, x) ==
    IF y = 0 THEN (IF x < 0 THEN 180 ELSE 0)
    ELSE IF y > 0 THEN 90 ELSE -90

\* ftf::quaternion_get_yaw(q) = atan2(2(wz + xy), 1 - 2(yy + zz)), which are
\* the elements (2,1) and (1,1) of q's rotation matrix.
quaternion_get_yaw(q) == Atan2Deg(q[2][1], q[1][1])

(***************************************************************************)
(* Integer arithmetic of the command's fields.                             *)
(***************************************************************************)
RECURSIVE Pow2(_)
Pow2(n) == IF n = 0 THEN 1 ELSE 2 * Pow2(n - 1)

\* a << n on int
Shl(a, n) == a * Pow2(n)

RECURSIVE BitOr(_, _)
\* a | b on non-negative ints
BitOr(a, b) ==
    IF a = 0 THEN b
    ELSE IF b = 0 THEN a
    ELSE (IF a % 2 = 1 \/ b % 2 = 1 THEN 1 ELSE 0) + 2 * BitOr(a \div 2, b \div 2)

\* Bit n of a.
Bit(a, n) == (a \div Pow2(n)) % 2

\* Mutant: the yaw bit (10) is set in place of the yaw-rate bit (11).
ignore_mask_yaw_bit ==
    BitOr(BitOr(Shl(1, 10), Shl(7, 6)), Shl(7, 3)) % Pow2(16)

\* const uint16_t ignore_all_except_xyz_y = (1 << 11) | (7 << 6) | (7 << 3);
ignore_all_except_xyz_y ==
    BitOr(BitOr(Shl(1, 11), Shl(7, 6)), Shl(7, 3)) % Pow2(16)

\* Mutant: the quotient is rounded to the nearest millisecond.
StampToMs_rounded(stamp) ==
    LET sh  == stamp.sec \div 65536
        sl  == stamp.sec % 65536
        low == sl * 1000 + ((stamp.nsec + 500000) \div 1000000)
    IN  [hi |-> sh * 1000 + (low \div 65536), lo |-> low % 65536]

\* ros::Time::toNSec() / 1000000 on uint64: with stamp = sec * 10^9 + nsec
\* and nsec < 10^9 the quotient is sec * 1000 + nsec / 10^6.  The quotient is
\* returned in halves, value = hi * 2^16 + lo, hi not yet narrowed.
StampToMs(stamp) ==
    LET sh  == stamp.sec \div 65536
        sl  == stamp.sec % 65536
        low == sl * 1000 + (stamp.nsec \div 1000000)
    IN  [hi |-> sh * 1000 + (low \div 65536), lo |-> low % 65536]

\* Conversion of the uint64 quotient to the uint32_t time_boot_ms parameter.
ToUint32(w) == [hi |-> w.hi % 65536, lo |-> w.lo]

(***************************************************************************)
(* Inputs.                                                                 *)
(***************************************************************************)
Identity == << <<1, 0, 0>>, <<0, 1, 0>>, <<0, 0, 1>> >>
\* Yaw by a quarter turn, yaw by a half turn, roll by a quarter turn.
RotZ90 == << <<0, -1, 0>>, <<1, 0, 0>>, <<0, 0, 1>> >>
RotZ180 == << <<-1, 0, 0>>, <<0, -1, 0>>, <<0, 0, 1>> >>
RotX90 == << <<1, 0, 0>>, <<0, 0, -1>>, <<0, 1, 0>> >>

\* The messages a pose source delivers: header.stamp (ros::Time), the
\* translation / position and the rotation / orientation.
PoseMsgs ==
    { [stamp |-> [sec |-> 1, nsec |-> 500000050],
       translation |-> <<1, 2, 3>>, rotation |-> Identity],
      [stamp |-> [sec |-> 1, nsec |-> 500999999],
       translation |-> <<-2, 1, -1>>, rotation |-> RotZ90],
      [stamp |-> [sec |-> 4294967, nsec |-> 296000000],
       translation |-> <<0, 3, -2>>, rotation |-> RotZ180],
      [stamp |-> [sec |-> 1700000000, nsec |-> 999999999],
       translation |-> <<3, -1, 2>>, rotation |-> RotX90] }

\* The ids a frame-selection request may carry.
ReqFrames ==
    {LOCAL_NED, BODY_NED, BODY_OFFSET_NED} \cup (MAV_FRAME_COUNT .. MaxFrameId)

\* A parameter of the parameter server: << >> when it is not set, << v >>
\* when it holds v.
NoParam == << >>

\* Contents of the private namespace ~setpoint_position at start-up.
ParamSets ==
    { [listen |-> l, rate |-> r, mav_frame |-> m] :
        l \in {NoParam, <<TRUE>>, <<FALSE>>},
        r \in {NoParam, <<100>>},
        m \in {NoParam, <<"LOCAL_NED">>, <<"BODY_NED">>, <<"LOCAL_ENU">>,
                <<"NO_SUCH_FRAME">>} }

\* The poses handed to the encoder on its own have translations with
\* components in -MaxCoord .. MaxCoord.
MaxCoord == 1

\* The rotations that map the axes onto the axes: the products of quarter
\* turns about z and about x (words of up to eight factors give all 24).
RotGens == {Identity, RotZ90, RotX90}
Products(S) == { MatMul(a, b) : a \in S, b \in S }
Rotations == Products(Products(Products(RotGens)))

\* Stamps below, at both sides of and far above 2^32 ms = 4294967.296 s.
EncodeStamps ==
    { [sec |-> 1, nsec |-> 500000050],
      [sec |-> 4294967, nsec |-> 295999999],
      [sec |-> 4294967, nsec |-> 296000000],
      [sec |-> 1700000000, nsec |-> 999999999] }

\* The poses a callback may pass to send_position_target.
EncodePoses ==
    { [translation |-> <<x, y, z>>, rotation |-> r] :
        x \in -MaxCoord..MaxCoord, y \in -MaxCoord..MaxCoord,
        z \in -MaxCoord..MaxCoord, r \in Rotations }

\* Granularity of the clock, in ms.
TickMs == 5
\* The listener's timer stops counting at MaxElapsed ms, which is at least the
\* longest minimum interval of the rates above.
MaxElapsed == 30

(***************************************************************************)
(* State.                                                                  *)
(***************************************************************************)
VARIABLES
    params,         \* the parameter server: tf/listen, tf/rate_limit, mav_frame
    phase,          \* "constructed", "subscribed" (initialize at line 62), "running"
    tf_listen,      \* bool tf_listen
    tf_rate,        \* double tf_rate (Hz)
    mav_frame,      \* MAV_FRAME mav_frame
    tf2_started,    \* the TF2 listener thread runs (tf2_start)
    setpoint_sub,   \* the "local" subscription exists
    mav_frame_srv,  \* the "mav_frame" service is advertised
    tf_elapsed,     \* ms since the listener's last processed update, at most
                    \* MaxElapsed (which also stands for "none so far")
    enc,            \* the send_position_target call in progress
    cmd,            \* the command the last call handed to the link; NoCmd
                    \* from the entry of a call until it sends
    srv_res,        \* the last frame-selection request and its response
    n_arrived,      \* pose events that arrived at the active source
    n_accepted,     \* callbacks transform_cb / setpoint_cb run
    n_encodes,      \* calls of send_position_target
    n_sent          \* calls of set_position_target_local_ned

vars ==
    << params, phase, tf_listen, tf_rate, mav_frame, tf2_started, setpoint_sub,
       mav_frame_srv, tf_elapsed, enc, cmd, srv_res, n_arrived, n_accepted,
       n_encodes, n_sent >>

NoEnc == [pc |-> "idle"]
NoCmd == [sent |-> FALSE]
NoRes == [called |-> FALSE]

\* An uninitialised MAV_FRAME member holds any value.
Indeterminate == ReqFrames

\* The members after the constructor (lines 37-41); mav_frame is not set.
Init ==
    /\ params \in {c \in ParamSets : c.listen # <<TRUE>> => c.rate = NoParam}
    /\ phase = "constructed"
    /\ tf_listen = FALSE
    /\ tf_rate = 50
    /\ mav_frame \in Indeterminate
    /\ tf2_started = FALSE
    /\ setpoint_sub = FALSE
    /\ mav_frame_srv = FALSE
    /\ tf_elapsed = MaxElapsed
    /\ enc = NoEnc
    /\ cmd = NoCmd
    /\ srv_res = NoRes
    /\ n_arrived = 0
    /\ n_accepted = 0
    /\ n_encodes = 0
    /\ n_sent = 0

\* ros::NodeHandle::param(name, var, default)
param(value, default) == IF value = NoParam THEN default ELSE value[1]

\* A write of mav_frame that overlaps a send_position_target call.
Overlapped(e) == IF e.pc = "idle" THEN e ELSE [e EXCEPT !.clean = FALSE]

(***************************************************************************)
(* send_position_target (lines 100-135).  The call reads mav_frame three   *)
(* times, for the translation (112), for the orientation (120) and for the *)
(* frame field (129), with no lock: a frame-selection request served on    *)
(* another thread may write mav_frame between the reads, so each read is a *)
(* step of its own.  The two comparisons of one condition (112, 120) use   *)
(* one load of mav_frame.                                                  *)
(***************************************************************************)
IsBodyFrame(f) == f = BODY_NED \/ f = BODY_OFFSET_NED

\* Entry: the call has its arguments, nothing is computed yet.
send_position_target(stamp, tr) ==
    [pc |-> "p", stamp |-> stamp, tr |-> tr, clean |-> TRUE,
     p |-> <<0, 0, 0>>, pbranch |-> "none", q |-> Identity, qbranch |-> "none"]

\* Mutant: the world-frame branch applies the body remap too.
ResolveTranslation_no_world(frame, tr) ==
    [v |-> transform_frame_baselink_aircraft(tr.translation),
     branch |-> IF IsBodyFrame(frame) THEN "body" ELSE "world"]

\* Mutant: BODY_OFFSET_NED is not tested and takes the world-frame branch.
ResolveTranslation_no_offset(frame, tr) ==
    IF frame = BODY_NED
    THEN [v |-> transform_frame_baselink_aircraft(tr.translation), branch |-> "body"]
    ELSE [v |-> transform_frame_enu_ned(tr.translation), branch |-> "world"]

\* Mutant: the world-frame branch swaps east and north and keeps up.
ResolveTranslation_up(frame, tr) ==
    IF IsBodyFrame(frame)
    THEN [v |-> transform_frame_baselink_aircraft(tr.translation), branch |-> "body"]
    ELSE [v |-> << tr.translation[2], tr.translation[1], tr.translation[3] >>,
          branch |-> "world"]

\* auto p = [&] () { ... } ();  lines 111-117
ResolveTranslation(frame, tr) ==
    IF IsBodyFrame(frame)
    THEN [v |-> transform_frame_baselink_aircraft(tr.translation), branch |-> "body"]
    ELSE [v |-> transform_frame_enu_ned(tr.translation), branch |-> "world"]

\* Mutant: the body branch applies the world-axis transform as well.
ResolveOrientation_always_world(frame, tr) ==
    [v |-> transform_orientation_enu_ned(
               transform_orientation_baselink_aircraft(tr.rotation)),
     branch |-> IF IsBodyFrame(frame) THEN "body" ELSE "world"]

\* auto q = [&] () { ... } ();  lines 119-126
ResolveOrientation(frame, tr) ==
    IF IsBodyFrame(frame)
    THEN [v |-> transform_orientation_baselink_aircraft(tr.rotation),
          branch |-> "body"]
    ELSE [v |-> transform_orientation_enu_ned(
                    transform_orientation_baselink_aircraft(tr.rotation)),
          branch |-> "world"]

\* Mutant: the position is passed for the velocity as well.
PositionTarget_velocity(e, frame, delivered) ==
    [sent |-> TRUE,
     time_boot_ms |-> ToUint32(StampToMs(e.stamp)),
     coordinate_frame |-> enum_value(frame),
     type_mask |-> ignore_all_except_xyz_y,
     position |-> e.p,
     velocity |-> e.p,
     accel |-> <<0, 0, 0>>,
     yaw |-> quaternion_get_yaw(e.q),
     yaw_rate |-> 0,
     stamp |-> e.stamp, tr |-> e.tr, pbranch |-> e.pbranch,
     qbranch |-> e.qbranch, clean |-> e.clean, delivered |-> delivered]

\* Mutant: the quotient is passed on in its full 64-bit width.
PositionTarget_wide(e, frame, delivered) ==
    [sent |-> TRUE,
     time_boot_ms |-> StampToMs(e.stamp),
     coordinate_frame |-> enum_value(frame),
     type_mask |-> ignore_all_except_xyz_y,
     position |-> e.p,
     velocity |-> <<0, 0, 0>>,
     accel |-> <<0, 0, 0>>,
     yaw |-> quaternion_get_yaw(e.q),
     yaw_rate |-> 0,
     stamp |-> e.stamp, tr |-> e.tr, pbranch |-> e.pbranch,
     qbranch |-> e.qbranch, clean |-> e.clean, delivered |-> delivered]

\* The arguments of set_position_target_local_ned, lines 128-134; the fields
\* after yaw_rate record the call they come from and are not transmitted.
PositionTarget(e, frame, delivered) ==
    [sent |-> TRUE,
     time_boot_ms |-> ToUint32(StampToMs(e.stamp)),
     coordinate_frame |-> enum_value(frame),
     type_mask |-> ignore_all_except_xyz_y,
     position |-> e.p,
     velocity |-> <<0, 0, 0>>,
     accel |-> <<0, 0, 0>>,
     yaw |-> quaternion_get_yaw(e.q),
     yaw_rate |-> 0,
     stamp |-> e.stamp, tr |-> e.tr, pbranch |-> e.pbranch,
     qbranch |-> e.qbranch, clean |-> e.clean, delivered |-> delivered]

\* Mutant: the call stores LOCAL_NED as the frame when it takes the
\* world-frame branch.
EncodeTranslation_normalises ==
    /\ enc.pc = "p"
    /\ LET r == ResolveTranslation(mav_frame, enc.tr)
       IN  enc' = [enc EXCEPT !.pc = "q", !.p = r.v, !.pbranch = r.branch]
    /\ mav_frame' = IF IsBodyFrame(mav_frame) THEN mav_frame ELSE LOCAL_NED
    /\ UNCHANGED << params, phase, tf_listen, tf_rate, tf2_started,
                    setpoint_sub, mav_frame_srv, tf_elapsed, cmd, srv_res,
                    n_arrived, n_accepted, n_encodes, n_sent >>

EncodeTranslation ==
    /\ enc.pc = "p"
    /\ LET r == ResolveTranslation(mav_frame, enc.tr)
       IN  enc' = [enc EXCEPT !.pc = "q", !.p = r.v, !.pbranch = r.branch]
    /\ UNCHANGED << params, phase, tf_listen, tf_rate, mav_frame, tf2_started,
                    setpoint_sub, mav_frame_srv, tf_elapsed, cmd, srv_res,
                    n_arrived, n_accepted, n_encodes, n_sent >>

EncodeOrientation ==
    /\ enc.pc = "q"
    /\ LET r == ResolveOrientation(mav_frame, enc.tr)
       IN  enc' = [enc EXCEPT !.pc = "send", !.q = r.v, !.qbranch = r.branch]
    /\ UNCHANGED << params, phase, tf_listen, tf_rate, mav_frame, tf2_started,
                    setpoint_sub, mav_frame_srv, tf_elapsed, cmd, srv_res,
                    n_arrived, n_accepted, n_encodes, n_sent >>

\* Mutant: a message the link dropped is sent again.
Dispatch_retry(delivered) ==
    /\ cmd' = PositionTarget(enc, mav_frame, delivered)
    /\ n_sent' = n_sent + (IF delivered THEN 1 ELSE 2)
    /\ enc' = NoEnc

\* The link takes the message or drops it; the plugin sees neither outcome.
Dispatch(delivered) ==
    /\ cmd' = PositionTarget(enc, mav_frame, delivered)
    /\ n_sent' = n_sent + 1
    /\ enc' = NoEnc

EncodeSend ==
    /\ enc.pc = "send"
    /\ \E delivered \in BOOLEAN : Dispatch(delivered)
    /\ UNCHANGED << params, phase, tf_listen, tf_rate, mav_frame, tf2_started,
                    setpoint_sub, mav_frame_srv, tf_elapsed, srv_res,
                    n_arrived, n_accepted, n_encodes >>

(***************************************************************************)
(* Callbacks.                                                              *)
(***************************************************************************)
\* tf::transformMsgToEigen / tf::poseMsgToEigen: the Affine3d of a message.
MsgToEigen(msg) == [translation |-> msg.translation, rotation |-> msg.rotation]

\* transform_cb, lines 140-147
transform_cb(transform) ==
    /\ enc' = send_position_target(transform.stamp, MsgToEigen(transform))
    /\ n_accepted' = n_accepted + 1
    /\ n_encodes' = n_encodes + 1

\* setpoint_cb, lines 149-154
setpoint_cb(req) ==
    /\ enc' = send_position_target(req.stamp, MsgToEigen(req))
    /\ n_accepted' = n_accepted + 1
    /\ n_encodes' = n_encodes + 1

\* Mutant: the request is persisted and answered but mav_frame is not assigned.
set_mav_frame_cb_no_assign(req) ==
    /\ mav_frame' = mav_frame
    /\ params' = [params EXCEPT !.mav_frame = << to_string(req) >>]
    /\ srv_res' = [called |-> TRUE, req |-> req, success |-> TRUE]

\* Mutant: an id outside the enumeration is refused and changes nothing.
set_mav_frame_cb_validating(req) ==
    IF req \in KnownFrames
    THEN /\ mav_frame' = req
         /\ params' = [params EXCEPT !.mav_frame = << to_string(req) >>]
         /\ srv_res' = [called |-> TRUE, req |-> req, success |-> TRUE]
    ELSE /\ mav_frame' = mav_frame
         /\ params' = params
         /\ srv_res' = [called |-> TRUE, req |-> req, success |-> FALSE]

\* Mutant: the name is taken from mav_frame before the request is assigned.
set_mav_frame_cb_stale_name(req) ==
    /\ mav_frame' = req
    /\ params' = [params EXCEPT !.mav_frame = << to_string(mav_frame) >>]
    /\ srv_res' = [called |-> TRUE, req |-> req, success |-> TRUE]

\* set_mav_frame_cb, lines 156-163
set_mav_frame_cb(req) ==
    /\ mav_frame' = req
    /\ params' = [params EXCEPT !.mav_frame = << to_string(req) >>]
    /\ srv_res' = [called |-> TRUE, req |-> req, success |-> TRUE]

(***************************************************************************)
(* initialize (lines 43-70).  tf2_start creates the listener thread, which *)
(* runs from then on, while mav_frame is assigned only at lines 63-69: the *)
(* two parts are two steps.  The subscription and the service are served   *)
(* by the node's spinner, which runs once the plugins are initialised.     *)
(***************************************************************************)
\* Mutant: the subscription is made whether or not the listener is started.
StartSource_both(listen) ==
    /\ tf2_started' = listen
    /\ setpoint_sub' = TRUE

\* if (tf_listen) tf2_start(...) else setpoint_sub = subscribe(...), lines 53-60
StartSource(listen) ==
    /\ tf2_started' = listen
    /\ setpoint_sub' = ~listen

\* Mutant: the default is taken as 500.
tf_rate_param_500(stored) == param(stored, 500)

\* Mutant: the default is taken as 100.
tf_rate_param_100(stored) == param(stored, 100)

\* sp_nh.param("tf/rate_limit", tf_rate, 50.0), line 51
tf_rate_param(stored) == param(stored, 50)

\* lines 45-61
InitializeSources ==
    /\ phase = "constructed"
    /\ tf_listen' = param(params.listen, FALSE)
    /\ tf_rate' = tf_rate_param(params.rate)
    /\ StartSource(tf_listen')
    /\ mav_frame_srv' = TRUE
    /\ phase' = "subscribed"
    /\ UNCHANGED << params, mav_frame, tf_elapsed, enc, cmd, srv_res,
                    n_arrived, n_accepted, n_encodes, n_sent >>

\* Mutant: without a stored name the frame is the enumeration's first value.
InitialFrame_zero(stored) ==
    IF stored = NoParam THEN 0 ELSE mav_frame_from_str(stored[1])

\* lines 64-69: the frame that initialize gives mav_frame
InitialFrame(stored) ==
    IF stored = NoParam THEN LOCAL_NED ELSE mav_frame_from_str(stored[1])

\* lines 63-69
InitializeFrame ==
    /\ phase = "subscribed"
    /\ mav_frame' = InitialFrame(params.mav_frame)
    /\ enc' = Overlapped(enc)
    /\ phase' = "running"
    /\ UNCHANGED << params, tf_listen, tf_rate, tf2_started, setpoint_sub,
                    mav_frame_srv, tf_elapsed, cmd, srv_res, n_arrived,
                    n_accepted, n_encodes, n_sent >>

\* The plugin is unloaded and constructed again; the parameter server keeps
\* what it holds.
Restart ==
    /\ phase = "running"
    /\ enc.pc = "idle"
    /\ phase' = "constructed"
    /\ tf_listen' = FALSE
    /\ tf_rate' = 50
    /\ mav_frame' \in Indeterminate
    /\ tf2_started' = FALSE
    /\ setpoint_sub' = FALSE
    /\ mav_frame_srv' = FALSE
    /\ tf_elapsed' = MaxElapsed
    /\ srv_res' = NoRes
    /\ cmd' = NoCmd
    /\ n_arrived' = 0
    /\ n_accepted' = 0
    /\ n_encodes' = 0
    /\ n_sent' = 0
    /\ UNCHANGED << params, enc >>

(***************************************************************************)
(* The pose sources and the service, as the host runs them.                *)
(***************************************************************************)
\* Minimum interval between two processed updates, ms.
TfMinInterval(rate) == 1000 \div rate

\* The rate limiter of the listener: is an update that arrives `elapsed` ms
\* after the last processed one processed?
TfDue(elapsed, rate) == elapsed >= TfMinInterval(rate)

\* TF2ListenerMixin: an update of the transform arrives at the listener
\* thread, which is not inside transform_cb.
TfUpdate ==
    /\ tf2_started
    /\ enc.pc = "idle"
    /\ n_arrived < MaxEvents
    /\ n_arrived' = n_arrived + 1
    /\ \E transform \in PoseMsgs :
          IF TfDue(tf_elapsed, tf_rate)
          THEN /\ tf_elapsed' = 0
               /\ transform_cb(transform)
               /\ cmd' = NoCmd
          ELSE UNCHANGED << tf_elapsed, enc, cmd, n_accepted, n_encodes >>
    /\ UNCHANGED << params, phase, tf_listen, tf_rate, mav_frame, tf2_started,
                    setpoint_sub, mav_frame_srv, srv_res, n_sent >>

\* A message of the "local" topic is delivered to the subscription.
LocalMessage ==
    /\ setpoint_sub
    /\ phase = "running"
    /\ enc.pc = "idle"
    /\ n_arrived < MaxEvents
    /\ n_arrived' = n_arrived + 1
    /\ \E req \in PoseMsgs : setpoint_cb(req)
    /\ cmd' = NoCmd
    /\ UNCHANGED << params, phase, tf_listen, tf_rate, mav_frame, tf2_started,
                    setpoint_sub, mav_frame_srv, tf_elapsed, srv_res, n_sent >>

\* A call of the "mav_frame" service is served.
FrameRequest ==
    /\ mav_frame_srv
    /\ phase = "running"
    /\ \E req \in ReqFrames : set_mav_frame_cb(req)
    /\ enc' = Overlapped(enc)
    /\ UNCHANGED << phase, tf_listen, tf_rate, tf2_started, setpoint_sub,
                    mav_frame_srv, tf_elapsed, cmd, n_arrived, n_accepted,
                    n_encodes, n_sent >>

\* Time passes.
Tick ==
    /\ tf2_started
    /\ tf_elapsed < MaxElapsed
    /\ tf_elapsed' = IF tf_elapsed + TickMs < MaxElapsed
                     THEN tf_elapsed + TickMs ELSE MaxElapsed
    /\ UNCHANGED << params, phase, tf_listen, tf_rate, mav_frame, tf2_started,
                    setpoint_sub, mav_frame_srv, enc, cmd, srv_res,
                    n_arrived, n_accepted, n_encodes, n_sent >>

Next ==
    \/ InitializeSources
    \/ InitializeFrame
    \/ Restart
    \/ TfUpdate
    \/ LocalMessage
    \/ FrameRequest
    \/ Tick
    \/ EncodeTranslation
    \/ EncodeOrientation
    \/ EncodeSend

Spec == Init /\ [][Next]_vars

(***************************************************************************)
(* send_position_target on its own: the "local" subscription has just      *)
(* passed a pose to the call, under any active frame, and the call runs to *)
(* its send with no request served meanwhile.                              *)
(***************************************************************************)
InitEncode ==
    /\ params = [listen |-> NoParam, rate |-> NoParam, mav_frame |-> NoParam]
    /\ phase = "running"
    /\ tf_listen = FALSE
    /\ tf_rate = 50
    /\ mav_frame \in ReqFrames
    /\ tf2_started = FALSE
    /\ setpoint_sub = TRUE
    /\ mav_frame_srv = TRUE
    /\ tf_elapsed = MaxElapsed
    /\ \E stamp \in EncodeStamps, tr \in EncodePoses :
          enc = send_position_target(stamp, tr)
    /\ cmd = NoCmd
    /\ srv_res = NoRes
    /\ n_arrived = 1
    /\ n_accepted = 1
    /\ n_encodes = 1
    /\ n_sent = 0

NextEncode ==
    \/ EncodeTranslation
    \/ EncodeOrientation
    \/ EncodeSend

SpecEncode == InitEncode /\ [][NextEncode]_vars

TypeOK ==
    /\ phase \in {"constructed", "subscribed", "running"}
    /\ tf_listen \in BOOLEAN
    /\ tf_rate \in Nat \ {0}
    /\ mav_frame \in 0..255
    /\ enc.pc \in {"idle", "p", "q", "send"}
    /\ tf_elapsed \in 0..MaxElapsed
    /\ n_arrived \in 0..MaxEvents

(***************************************************************************)
(* Properties.                                                             *)
(*                                                                         *)
(* A step sends a command when cmd'.sent holds and cmd.sent does not.  A   *)
(* call is "clean" when no write of mav_frame overlapped it, so that one   *)
(* convention was active from its entry to its send.                       *)
(***************************************************************************)
Sends == enc.pc = "send" /\ cmd'.sent

\* The (east, north, up) -> (north, east, -up) and the
\* (forward, left, up) -> (forward, right, down) maps, written out.
NorthEastDown(t) == << t[2], t[1], -t[3] >>
ForwardRightDown(t) == << t[1], -t[2], -t[3] >>

\* C1: a request naming BODY_NED is answered with success, and every call of
\* send_position_target that begins after it completed and sends before the
\* next request takes the body branch for the translation and for the
\* orientation and writes BODY_NED's id into the frame field, whatever the
\* pose.
C1_BodySelection ==
    [][ /\ (srv_res'.called /\ srv_res'.req = BODY_NED) => srv_res'.success
        /\ (Sends /\ enc.clean /\ srv_res.called /\ srv_res.req = BODY_NED)
             => /\ cmd'.coordinate_frame = 8
                /\ cmd'.pbranch = "body"
                /\ cmd'.qbranch = "body"
                /\ cmd'.position = ForwardRightDown(enc.tr.translation) ]_vars

\* C1 witness: a call that began after a BODY_NED request completed has
\* resolved translation and orientation on the body branch and is about to
\* send.
C1_Witness ==
    /\ enc.pc = "send"
    /\ enc.clean
    /\ srv_res.called
    /\ srv_res.req = BODY_NED
    /\ srv_res.success
    /\ enc.pbranch = "body"
    /\ enc.qbranch = "body"
    /\ enc.tr.translation = <<1, 2, 3>>
    /\ enc.p = <<1, -2, -3>>

\* C2: a request whose id is not in the enumeration is answered with failure
\* and leaves mav_frame and the stored frame name as they were.
C2_UnknownIdRejected ==
    [][ (srv_res'.called /\ srv_res' # srv_res /\ srv_res'.req \notin KnownFrames)
          => /\ ~srv_res'.success
             /\ mav_frame' = mav_frame
             /\ params' = params ]_vars

\* The rate limit the configuration asks for, and its minimum interval in ms.
ConfiguredRate == IF params.rate = NoParam THEN 50 ELSE params.rate[1]
ConfiguredInterval == 1000 \div ConfiguredRate

\* C3: with the listener active, an update that arrives less than 1/R after
\* the last processed one starts no send_position_target call, sends nothing
\* and leaves nothing behind for later (the timer is not touched either); a
\* call starts only in the step in which an update arrives that is due.
C3_EarlyUpdateDropped ==
    [][ /\ (tf2_started /\ n_arrived' = n_arrived + 1
                        /\ tf_elapsed < ConfiguredInterval)
            => /\ enc' = enc
               /\ cmd' = cmd
               /\ n_accepted' = n_accepted
               /\ n_encodes' = n_encodes
               /\ n_sent' = n_sent
               /\ tf_elapsed' = tf_elapsed
        /\ (tf2_started /\ n_encodes' > n_encodes)
            => /\ n_arrived' = n_arrived + 1
               /\ tf_elapsed >= ConfiguredInterval ]_vars

\* C3 witness: at 50 Hz, of two updates 5 ms apart the first was processed and
\* sent and the second was dropped.
C3_Witness ==
    /\ tf2_started
    /\ params.rate = NoParam
    /\ n_arrived = 2
    /\ n_accepted = 1
    /\ n_encodes = 1
    /\ n_sent = 1
    /\ tf_elapsed = 5
    /\ enc.pc = "idle"

\* The listen-mode flag of the configuration (false when it is not set).
ListenFlag == params.listen = <<TRUE>>

\* C4: once initialize has set up the sources, the listener runs exactly when
\* the listen flag is true and the subscription exists exactly when it is
\* false, so one of the two is active and never both or neither; and a pose
\* reaches the encoder through that source only (the listener restarts its
\* timer when it forwards, the subscription has no timer).
C4_OneSource ==
    /\ [](phase # "constructed"
            => /\ tf2_started = ListenFlag
               /\ setpoint_sub = ~ListenFlag
               /\ tf_listen = ListenFlag)
    /\ [](phase = "constructed" => ~tf2_started /\ ~setpoint_sub)
    /\ [][ n_accepted' > n_accepted
            => IF ListenFlag
               THEN tf2_started /\ tf_elapsed > 0 /\ tf_elapsed' = 0
               ELSE setpoint_sub /\ tf_elapsed' = tf_elapsed ]_vars

\* C4 witness: with the flag true the listener alone is active and a pose it
\* delivered has been sent.
C4_Witness ==
    /\ phase = "running"
    /\ ListenFlag
    /\ tf2_started
    /\ ~setpoint_sub
    /\ n_sent = 1
    /\ cmd.sent

\* C5: each accepted pose makes one call of send_position_target and one
\* command: while no call is in progress the three counts agree, during a
\* call the command of the pose in hand is the only one outstanding, and a
\* step sends at most one command, whether or not the link delivered the
\* previous one.
C5_OneCommandPerPose ==
    /\ [](/\ n_encodes = n_accepted
           /\ n_sent = n_accepted - (IF enc.pc = "idle" THEN 0 ELSE 1)
           /\ (enc.pc = "idle" /\ n_accepted > 0 => cmd.sent))
    /\ [][ Sends => /\ n_sent' = n_sent + 1
                     /\ n_encodes' = n_encodes
                     /\ cmd'.tr = enc.tr
                     /\ cmd'.stamp = enc.stamp ]_vars

\* C5 witness: two poses were accepted and two commands sent, the last of
\* which the link dropped, and nothing is in progress.
C5_Witness ==
    /\ n_accepted = 2
    /\ n_encodes = 2
    /\ n_sent = 2
    /\ enc.pc = "idle"
    /\ cmd.sent
    /\ ~cmd.delivered

\* C6: the type_mask of every command sent is 2552 = (1<<11)|(7<<6)|(7<<3):
\* bits 11, 8, 7, 6, 5, 4, 3 set and all the others, bits 0-2 and 10 among
\* them, clear, for every pose and every frame.
C6_FixedIgnoreMask ==
    cmd.sent =>
        /\ cmd.type_mask = 2552
        /\ \A b \in 0..15 :
              Bit(cmd.type_mask, b) = (IF b \in {3, 4, 5, 6, 7, 8, 11} THEN 1 ELSE 0)

\* C6 witness: commands with the mask were sent for a body frame.
C6_Witness ==
    /\ cmd.sent
    /\ cmd.coordinate_frame = BODY_OFFSET_NED
    /\ cmd.tr.translation = <<3, -1, 2>>
    /\ cmd.type_mask = 2552

\* C7: when the active frame is neither BODY_NED nor BODY_OFFSET_NED, the
\* position of the command is (north, east, -up) for the input translation
\* (east, north, up); (1, 2, 3) gives (2, 1, -3).  This holds of every call
\* for the frame that is active when the call resolves the translation, the
\* command carries that position, and so for a clean call it holds of the
\* frame the command names.
C7_WorldPosition ==
    /\ [][ (enc.pc = "p" /\ enc'.pc = "q"
                         /\ mav_frame \notin {BODY_NED, BODY_OFFSET_NED})
            => /\ enc'.p = NorthEastDown(enc.tr.translation)
               /\ enc'.pbranch = "world" ]_vars
    /\ [][ Sends => cmd'.position = enc.p /\ cmd'.tr = enc.tr ]_vars
    /\ []((cmd.sent /\ cmd.clean
                    /\ cmd.coordinate_frame \notin {BODY_NED, BODY_OFFSET_NED})
            => /\ cmd.position = NorthEastDown(cmd.tr.translation)
               /\ cmd.pbranch = "world"
               /\ (cmd.tr.translation = <<1, 2, 3>> => cmd.position = <<2, 1, -3>>))

\* C7 witness: (1, 2, 3) was sent as (2, 1, -3) under LOCAL_NED.
C7_Witness ==
    /\ cmd.sent
    /\ cmd.clean
    /\ cmd.coordinate_frame = LOCAL_NED
    /\ cmd.tr.translation = <<1, 2, 3>>
    /\ cmd.position = <<2, 1, -3>>

\* C8: when the active frame is BODY_NED or BODY_OFFSET_NED, the position of
\* the command is the input translation (x, y, z) as (x, -y, -z); its first
\* two components are not swapped.  This holds of every call for the frame
\* that is active when the call resolves the translation, the command
\* carries that position, and so for a clean call it holds of the frame the
\* command names.
C8_BodyPosition ==
    /\ [][ (enc.pc = "p" /\ enc'.pc = "q"
                         /\ mav_frame \in {BODY_NED, BODY_OFFSET_NED})
            => /\ enc'.p = ForwardRightDown(enc.tr.translation)
               /\ enc'.pbranch = "body" ]_vars
    /\ [][ Sends => cmd'.position = enc.p /\ cmd'.pbranch = enc.pbranch ]_vars
    /\ []((cmd.sent /\ cmd.clean
                    /\ cmd.coordinate_frame \in {BODY_NED, BODY_OFFSET_NED})
            => /\ cmd.position = ForwardRightDown(cmd.tr.translation)
               /\ cmd.pbranch = "body"
               /\ (cmd.tr.translation[1] # cmd.tr.translation[2]
                     => cmd.position # NorthEastDown(cmd.tr.translation)))

\* C8 witness: (1, 2, 3) was sent as (1, -2, -3) under BODY_OFFSET_NED.
C8_Witness ==
    /\ cmd.sent
    /\ cmd.clean
    /\ cmd.coordinate_frame = BODY_OFFSET_NED
    /\ cmd.tr.translation = <<1, 2, 3>>
    /\ cmd.position = <<1, -2, -3>>

\* Whole seconds and milliseconds of a millisecond count kept in halves:
\* hi * 2^16 + lo = sec * 1000 + ms, with hi = 1000 a + b.
SecondsAndMs(u) ==
    LET a    == u.hi \div 1000
        rest == (u.hi % 1000) * 65536 + u.lo
    IN  [sec |-> a * 65536 + (rest \div 1000), ms |-> rest % 1000]

\* m is the quotient of nsec by 10^6, truncated.
TruncatedMs(m, nsec) == m * 1000000 <= nsec /\ nsec < (m + 1) * 1000000

\* 2^32 ms are 4294967 s and 296 ms: the seconds and milliseconds of
\* t + w * 2^32.
PlusWraps(t, w) ==
    LET ms == t.ms + w * 296
    IN  [sec |-> t.sec + w * 4294967 + (ms \div 1000), ms |-> ms % 1000]

\* C9 as stated: time_boot_ms of every command sent is the stamp in
\* nanoseconds divided by 1,000,000 and truncated: it has the stamp's whole
\* seconds and the truncated milliseconds of its nanosecond part.
C9_TruncatedQuotient ==
    cmd.sent =>
        LET t == SecondsAndMs(cmd.time_boot_ms)
        IN  /\ t.sec = cmd.stamp.sec
            /\ TruncatedMs(t.ms, cmd.stamp.nsec)

\* C9 as amended: time_boot_ms is a 32-bit value that differs from the
\* truncated quotient by a multiple of 2^32 (it is the quotient modulo 2^32);
\* the quotient is never rounded: 1,500,000,050 ns and 1,500,999,999 ns both
\* give 1500.
C9_TruncatedQuotientMod32 ==
    cmd.sent =>
        /\ cmd.time_boot_ms.hi \in 0..65535
        /\ cmd.time_boot_ms.lo \in 0..65535
        /\ \E w \in 0..(cmd.stamp.sec \div 4294967) :
              LET t == PlusWraps(SecondsAndMs(cmd.time_boot_ms), w)
              IN  /\ t.sec = cmd.stamp.sec
                  /\ TruncatedMs(t.ms, cmd.stamp.nsec)
        /\ (cmd.stamp.sec = 1 /\ cmd.stamp.nsec \in {500000050, 500999999}
              => cmd.time_boot_ms = [hi |-> 0, lo |-> 1500])

\* C9 witness: the stamp 1,500,999,999 ns was sent as 1500 ms.
C9_Witness ==
    /\ cmd.sent
    /\ cmd.stamp = [sec |-> 1, nsec |-> 500999999]
    /\ cmd.time_boot_ms = [hi |-> 0, lo |-> 1500]

\* The frame a stored name denotes: the position of the name in the
\* enumeration's list of names, LOCAL_NED when the list does not have it.
Denoted(name) ==
    IF \E i \in 1..Len(mav_frame_strings) : mav_frame_strings[i] = name
    THEN (CHOOSE i \in 1..Len(mav_frame_strings) : mav_frame_strings[i] = name) - 1
    ELSE 1

\* C10: initialize always completes, and from then until the first
\* frame-selection request mav_frame is a value of the enumeration: LOCAL_NED
\* when no frame name is stored or the stored name is not a frame's name,
\* and otherwise the frame the stored name denotes.
C10_InitialFrame ==
    /\ (phase = "subscribed" => ENABLED InitializeFrame)
    /\ (phase = "running" /\ ~srv_res.called)
         => /\ mav_frame \in KnownFrames
            /\ (params.mav_frame = NoParam => mav_frame = 1)
            /\ (params.mav_frame # NoParam
                  => mav_frame = Denoted(params.mav_frame[1]))

\* C10 witness: the stored name is no frame's name and mav_frame is LOCAL_NED.
C10_Witness ==
    /\ phase = "running"
    /\ ~srv_res.called
    /\ params.mav_frame = <<"NO_SUCH_FRAME">>
    /\ mav_frame = LOCAL_NED

\* C11: in every command sent the velocity and the acceleration are the zero
\* vector and the yaw rate is zero, whatever the pose, the frame and the
\* requests that overlapped the call; the position and the yaw are the
\* fields that follow the pose.
C11_ZeroRates ==
    /\ [](cmd.sent => /\ cmd.velocity = <<0, 0, 0>>
                      /\ cmd.accel = <<0, 0, 0>>
                      /\ cmd.yaw_rate = 0)
    /\ [][ Sends => /\ cmd'.position = enc.p
                     /\ cmd'.yaw = Atan2Deg(enc.q[2][1], enc.q[1][1]) ]_vars

\* C11 witness: a command with a non-zero position and a non-zero yaw was
\* sent with zero velocity, acceleration and yaw rate.
C11_Witness ==
    /\ cmd.sent
    /\ cmd.position = <<1, -2, 1>>
    /\ cmd.yaw # 0
    /\ cmd.velocity = <<0, 0, 0>>
    /\ cmd.accel = <<0, 0, 0>>
    /\ cmd.yaw_rate = 0

\* C12: the world-frame translation map is exact and is its own inverse.
\* The position of a command resolved on the world branch has the components
\* of the input (east, north, up) as (north, east, -up), with no other
\* change; mapping the position back by the same rule gives the input, and
\* resolving the position once more under the same frame gives the input
\* too, so that applying the map twice is the identity.
C12_WorldRoundTrip ==
    (cmd.sent /\ cmd.pbranch = "world") =>
        LET t == cmd.tr.translation
            again == ResolveTranslation(cmd.coordinate_frame,
                         [translation |-> cmd.position,
                          rotation |-> cmd.tr.rotation])
        IN  /\ cmd.position = << t[2], t[1], -t[3] >>
            /\ NorthEastDown(cmd.position) = t
            /\ again.branch = "world"
            /\ again.v = t

\* C12 witness: (1, -1, 1) was sent as (-1, 1, -1) on the world branch.
C12_Witness ==
    /\ cmd.sent
    /\ cmd.pbranch = "world"
    /\ cmd.coordinate_frame = LOCAL_NED
    /\ cmd.tr.translation = <<1, -1, 1>>
    /\ cmd.position = <<-1, 1, -1>>

\* The body-axis remap and the world-axis transform of an orientation R,
\* written out: R * diag(1, -1, -1) negates the second and third columns,
\* and the world transform of M has M's second row, M's first row and the
\* negated third row.
BodyRemapped(R) ==
    << << R[1][1], -R[1][2], -R[1][3] >>,
       << R[2][1], -R[2][2], -R[2][3] >>,
       << R[3][1], -R[3][2], -R[3][3] >> >>
WorldTransformed(M) ==
    << M[2], M[1], << -M[3][1], -M[3][2], -M[3][3] >> >>

\* C13: the yaw of a command is the yaw of the resolved orientation.  Under
\* BODY_NED and BODY_OFFSET_NED the resolved orientation is the body-axis
\* remap of the input and nothing else; under any other frame it is the
\* world-axis transform of the body-axis remap of the input.  So the yaw is
\* the input's yaw atan2(R21, R11) in the body case and atan2(R11, R21) in
\* the world case, and the world-axis step leaves no trace in the body case.
C13_YawOfResolved ==
    /\ [][ (enc.pc = "q" /\ enc'.pc = "send")
            => IF mav_frame \in {BODY_NED, BODY_OFFSET_NED}
               THEN /\ enc'.q = BodyRemapped(enc.tr.rotation)
                    /\ enc'.qbranch = "body"
               ELSE /\ enc'.q = WorldTransformed(BodyRemapped(enc.tr.rotation))
                    /\ enc'.qbranch = "world" ]_vars
    /\ [][ Sends => /\ cmd'.yaw = (IF enc.q[2][1] > 0 THEN 90
                                   ELSE IF enc.q[2][1] < 0 THEN -90
                                   ELSE IF enc.q[1][1] < 0 THEN 180 ELSE 0)
                     /\ cmd'.qbranch = enc.qbranch ]_vars
    /\ [](cmd.sent =>
            LET R == cmd.tr.rotation
            IN  cmd.yaw = IF cmd.coordinate_frame \in {BODY_NED, BODY_OFFSET_NED}
                          THEN Atan2Deg(R[2][1], R[1][1])
                          ELSE Atan2Deg(R[1][1], R[2][1]))

\* C13 witness: an orientation with yaw 0 (facing east) was sent under
\* LOCAL_NED with yaw 90, and the resolved orientation is on the world branch.
C13_Witness ==
    /\ cmd.sent
    /\ cmd.coordinate_frame = LOCAL_NED
    /\ cmd.qbranch = "world"
    /\ cmd.tr.rotation = Identity
    /\ cmd.yaw = 90

\* C14: the frame-selection handler has no failure outcome.  While the
\* service is served, a request with any id, of the enumeration or not, can
\* be served and ends with mav_frame equal to the id and success reported;
\* and whenever a request has been served, its answer was success and
\* mav_frame is the id it carried.
C14_EveryRequestAccepted ==
    /\ (mav_frame_srv /\ phase = "running")
         => \A id \in ReqFrames :
               ENABLED (/\ FrameRequest
                        /\ srv_res'.req = id
                        /\ srv_res'.success
                        /\ mav_frame' = id)
    /\ srv_res.called => /\ srv_res.success
                         /\ mav_frame = srv_res.req

\* C14 witness: a request with id 12, which the enumeration does not have, was
\* answered with success and 12 is the active frame.
C14_Witness ==
    /\ srv_res.called
    /\ srv_res.req = 12
    /\ srv_res.req \notin KnownFrames
    /\ srv_res.success
    /\ mav_frame = 12

\* C15: every command sent is resolved under one frame: the branch taken for
\* the translation, the branch taken for the orientation and the frame id of
\* the command belong to one value of mav_frame, also when a frame-selection
\* request is served while the call runs.
C15_OneConvention ==
    cmd.sent =>
        \E f \in 0..255 :
            /\ cmd.coordinate_frame = f
            /\ cmd.pbranch = (IF f \in {BODY_NED, BODY_OFFSET_NED}
                              THEN "body" ELSE "world")
            /\ cmd.qbranch = cmd.pbranch

\* An update of the transform arrives at the listener.
Arrives == tf2_started /\ n_arrived' = n_arrived + 1

\* C16: the listener's limiter counts from the last processed update.  An
\* update that arrives before the minimum interval has passed since then is
\* dropped and leaves the count as it is; an update that arrives when the
\* interval has passed is forwarded, however many were dropped in between,
\* and restarts the count; and while the interval has not passed, time goes
\* on counting.  At 50 Hz (20 ms), after an update processed at 0 ms the
\* update at 15 ms is dropped and the one at 30 ms is forwarded.
C16_CountsFromProcessed ==
    /\ [][ (Arrives /\ tf_elapsed < ConfiguredInterval)
            => /\ n_accepted' = n_accepted
               /\ tf_elapsed' = tf_elapsed
               /\ enc' = enc ]_vars
    /\ [][ (Arrives /\ tf_elapsed >= ConfiguredInterval)
            => /\ n_accepted' = n_accepted + 1
               /\ tf_elapsed' = 0
               /\ enc'.pc = "p" ]_vars
    /\ [][ (Arrives /\ ConfiguredInterval = 20 /\ n_accepted = 1)
            => /\ (tf_elapsed = 15 => n_accepted' = 1 /\ tf_elapsed' = 15)
               /\ (tf_elapsed = 30 => n_accepted' = 2) ]_vars
    /\ []((tf2_started /\ tf_elapsed < ConfiguredInterval)
            => ENABLED (Tick /\ tf_elapsed' > tf_elapsed))

\* C16 witness: at 50 Hz three updates arrived; the first and the third were
\* forwarded, the second was dropped, and the third has just restarted the
\* count.
C16_Witness ==
    /\ tf2_started
    /\ params.rate = NoParam
    /\ n_arrived = 3
    /\ n_accepted = 2
    /\ n_sent = 1
    /\ tf_elapsed = 0
    /\ enc.pc = "p"

\* C17: once initialize has completed, mav_frame and the stored frame name
\* change only in a step that serves a frame-selection request.  A step in
\* which a pose event arrives (a transform update or a "local" message), in
\* which send_position_target advances or in which a command is sent leaves
\* both as they are; and a step that changes either one is the serving of a
\* request whose id is the new mav_frame, with no pose handled in it.
C17_OnlyHandlerWrites ==
    [][ (phase = "running" /\ phase' = "running")
          => /\ (n_arrived' # n_arrived \/ enc'.pc # enc.pc \/ cmd' # cmd
                                        \/ tf_elapsed' # tf_elapsed)
                  => /\ mav_frame' = mav_frame
                     /\ params' = params
             /\ (mav_frame' # mav_frame \/ params' # params)
                  => /\ srv_res'.called
                     /\ srv_res'.req = mav_frame'
                     /\ n_arrived' = n_arrived
                     /\ n_accepted' = n_accepted
                     /\ n_sent' = n_sent
                     /\ enc'.pc = enc.pc ]_vars

\* C17 witness: two poses were handled and sent under the frame that
\* initialize took from the stored name, which is still the active one, and
\* no request was served.
C17_Witness ==
    /\ phase = "running"
    /\ ~srv_res.called
    /\ params.mav_frame = <<"BODY_NED">>
    /\ mav_frame = BODY_NED
    /\ n_accepted = 2
    /\ n_sent = 2
    /\ cmd.sent
    /\ cmd.clean

\* C18: after a served request the mav_frame parameter holds the name of the
\* frame that is active: "LOCAL_NED" for 1, "BODY_NED" for 8,
\* "BODY_OFFSET_NED" for 9, the enumerator's name for every id of the
\* enumeration, and for an id the enumeration does not have, which has no
\* other name, its decimal numeral.  A request that follows another leaves
\* the name of its own id, so the stored name is that of the last request.
C18_StoredNameIsActive ==
    /\ [](srv_res.called =>
            /\ Len(params.mav_frame) = 1
            /\ (mav_frame = 1 => params.mav_frame[1] = "LOCAL_NED")
            /\ (mav_frame = 8 => params.mav_frame[1] = "BODY_NED")
            /\ (mav_frame = 9 => params.mav_frame[1] = "BODY_OFFSET_NED")
            /\ (mav_frame \in 0..11
                  => params.mav_frame[1] = mav_frame_strings[mav_frame + 1])
            /\ (mav_frame \notin 0..11
                  => params.mav_frame[1] = ToString(mav_frame)))
    /\ [][ (srv_res.called /\ srv_res'.called /\ srv_res'.req # srv_res.req)
            => /\ mav_frame' = srv_res'.req
               /\ params'.mav_frame # params.mav_frame
               /\ (srv_res'.req = 9
                     => params'.mav_frame = <<"BODY_OFFSET_NED">>) ]_vars

\* C18 witness: a command was sent with BODY_NED's id, then a request for
\* BODY_OFFSET_NED was served, and the stored name is "BODY_OFFSET_NED".
C18_Witness ==
    /\ srv_res.called
    /\ srv_res.req = BODY_OFFSET_NED
    /\ mav_frame = BODY_OFFSET_NED
    /\ params.mav_frame = <<"BODY_OFFSET_NED">>
    /\ params.listen = <<TRUE>>
    /\ cmd.sent
    /\ cmd.coordinate_frame = BODY_NED

\* C19: the stored name round-trips.  When the plugin has been initialised
\* again from the name that a served request left in the mav_frame parameter,
\* and no request has been served since, mav_frame is the id of that
\* request, for every id the handler accepts.
C19_StoredNameRoundTrips ==
    (phase = "running" /\ ~srv_res.called /\ params.mav_frame # NoParam)
        => \A id \in 0..255 :
              params.mav_frame = << to_string(id) >> => mav_frame = id

\* The stamp is below 2^32 ms = 4294967 s + 296 ms.
BelowWrap(stamp) ==
    \/ stamp.sec < 4294967
    \/ stamp.sec = 4294967 /\ stamp.nsec < 296000000

\* C20: time_boot_ms is a 32-bit value.  For a stamp below 2^32 ms it is the
\* truncated millisecond quotient itself; for a stamp of 2^32 ms or more it
\* is not the quotient but the quotient less a positive multiple of 2^32.
\* It is not monotonic in the stamp: 4294967.295999999 s gives 2^32 - 1 and
\* the later 4294967.296 s gives 0.
C20_WrapsAt32Bits ==
    cmd.sent =>
        LET t == SecondsAndMs(cmd.time_boot_ms)
        IN  /\ cmd.time_boot_ms.hi \in 0..65535
            /\ cmd.time_boot_ms.lo \in 0..65535
            /\ BelowWrap(cmd.stamp)
                 => /\ t.sec = cmd.stamp.sec
                    /\ TruncatedMs(t.ms, cmd.stamp.nsec)
            /\ ~BelowWrap(cmd.stamp)
                 => /\ t.sec < cmd.stamp.sec
                    /\ \E w \in 1..(cmd.stamp.sec \div 4294967) :
                          LET u == PlusWraps(t, w)
                          IN  /\ u.sec = cmd.stamp.sec
                              /\ TruncatedMs(u.ms, cmd.stamp.nsec)
            /\ (cmd.stamp = [sec |-> 4294967, nsec |-> 295999999]
                  => cmd.time_boot_ms = [hi |-> 65535, lo |-> 65535])
            /\ (cmd.stamp = [sec |-> 4294967, nsec |-> 296000000]
                  => cmd.time_boot_ms = [hi |-> 0, lo |-> 0])

\* C20 witness: the stamp 4294967.296 s, which is 2^32 ms, was sent as 0.
C20_Witness ==
    /\ cmd.sent
    /\ cmd.stamp = [sec |-> 4294967, nsec |-> 296000000]
    /\ ~BelowWrap(cmd.stamp)
    /\ cmd.time_boot_ms = [hi |-> 0, lo |-> 0]

=============================================================================
